---- MODULE Spec2Model ----
(***************************************************************************)
(* Model of the per-call media-stream handler of server.js and of the      *)
(* SalesforceService it drives.                                            *)
(*                                                                         *)
(* server.js holds two variants of the handler:                            *)
(*   "tts"      server.js:1-219, paired with the service that numbers its  *)
(*              messages (unnamed/part_000:178-382);                       *)
(*   "buffered" server.js:221-418, paired with the service whose           *)
(*              createSession returns the bare session id                  *)
(*              (salesforce-service.js:154-282).                           *)
(* The variant and the environment (SALESFORCE_AGENT_ID set or not) are    *)
(* fixed when the process starts.                                          *)
(*                                                                         *)
(* Strings are sequences of characters; a literal of the source that is    *)
(* never taken apart is a sequence of one atom holding the literal.        *)
(***************************************************************************)
EXTENDS Integers, Sequences, FiniteSets, TLC

\* ------------------------------------------------------------------ bounds

\* media frames Twilio delivers on one call
MaxMedia == 2
\* audio chunks one synthesis stream yields
MaxChunks == 1
\* clock ticks (one tick is the token's lifetime)
MaxTicks == 1
MaxRelayChunks == 2
MaxPairMedia == 1

\* ------------------------------------------------------------------ domains

Variants == {"tts", "buffered"}
Conns == {"c1", "c2"}
Sids == {"MZ1"}
Tokens == {"t1"}

\* transcript texts Deepgram reports: empty, blank, padded
Texts == {<<>>, <<" ">>, <<" ", "o", "k">>}

\* the messages arrays the agent API answers with: none, one message with an
\* empty text, one part, two parts
Part1 == <<"Your order ships">>
Part2 == <<"tomorrow.">>
MessageLists == {<<>>, << <<>> >>, <<Part1>>, <<Part1, Part2>>}

\* JS undefined / null for string-valued slots
Undefined == "undefined"
Null == "null"

\* the session id the agent API gives the session of connection c
SessionIdOf(c) == c

\* ------------------------------------------------------------------ strings

IsSpace(ch) == ch = " "

RECURSIVE TrimStart(_)
TrimStart(s) ==
    IF s # <<>> /\ IsSpace(Head(s)) THEN TrimStart(Tail(s)) ELSE s

RECURSIVE TrimEnd(_)
TrimEnd(s) ==
    IF s # <<>> /\ IsSpace(s[Len(s)]) THEN TrimEnd(SubSeq(s, 1, Len(s) - 1)) ELSE s

\* String.prototype.trim
Trim(s) == TrimEnd(TrimStart(s))

\* truthiness of a JS string
Truthy(s) == s # <<>>

MockPrefix ==
    <<"I am a mock agent. Salesforce is currently offline, but I received your message: ">>
MockReply(userMessage) == MockPrefix \o userMessage
HandlerApology == <<"I'm having trouble connecting to Salesforce right now.">>
ServiceApology == <<"Sorry, I'm having trouble connecting right now.">>
NotUnderstood == <<"I didn't understand that.">>

\* the reply sendMessage takes from the response's messages array
AgentReplyLast(messages) ==
    IF Len(messages) > 0 THEN messages[Len(messages)] ELSE NotUnderstood

\* response.data.messages?.[0]?.text || "I didn't understand that."
AgentReplyFirst(messages) ==
    IF Len(messages) > 0 /\ Truthy(messages[1]) THEN messages[1] ELSE NotUnderstood

\* ------------------------------------------------------------------ state

VARIABLES
    variant,          \* which handler the process runs
    agentConfigured,  \* process.env.SALESFORCE_AGENT_ID is set
    allowed,          \* the connections Twilio opens in this run
    crashed,          \* an uncaught exception ended the process
    now,              \* Date.now(), in ticks
    accessToken,      \* SalesforceService.accessToken
    tokenExpiry,      \* SalesforceService.tokenExpiry (0: null)
    sessionSequences, \* SalesforceService.sessionSequences, a Map
    backendLog,       \* per session id, the sequenceIds posted to the agent API
    conn,             \* per connection: "idle" | "creating" | "open" | "closed"
    twilio,           \* per connection: the last event Twilio delivered
    salesforceSession,\* per connection: the session id held, or Undefined
    streamSid,        \* per connection: ws.streamSid
    dg,               \* per connection: deepgramLive "none" | "open" | "finished"
    dgFinish,         \* per connection: calls of deepgramLive.finish()
    dgPending,        \* per connection: frames forwarded and not yet transcribed
    transcriptBuffer, \* per connection: transcriptBuffer (buffered variant)
    create,           \* per connection: createSession "none" | "token" | "post" | "done" | "failed"
    turns,            \* per connection: the calls of handleAgentConversation
    ends,             \* per connection: the calls of endSession
    outbound,         \* per connection: media events sent to Twilio
    history           \* per connection: what the environment delivered

svcVars == <<now, accessToken, tokenExpiry, sessionSequences, backendLog>>
envVars == <<variant, agentConfigured, allowed>>
vars == <<variant, agentConfigured, allowed, crashed, now, accessToken, tokenExpiry,
          sessionSequences, backendLog, conn, twilio, salesforceSession, streamSid,
          dg, dgFinish, dgPending, transcriptBuffer, create, turns, ends, outbound,
          history>>

\* ------------------------------------------------------------------ service helpers

\* 55 * 60 * 1000 ms: the lifetime getAccessToken gives a token
TokenLifetimeMs == 55 * 60 * 1000

\* TokenValid without the test of the expiry
TokenValidIgnoringExpiry == accessToken # Null

\* the cached-token test of getAccessToken
TokenValid == accessToken # Null /\ tokenExpiry # 0 /\ now < tokenExpiry

MapSet(m, k, v) == [x \in DOMAIN m \cup {k} |-> IF x = k THEN v ELSE m[x]]
MapDelete(m, k) == [x \in DOMAIN m \ {k} |-> m[x]]

\* this.sessionSequences.get(sessionId) || 1
SequenceIdFor(sessionId) ==
    IF sessionId \in DOMAIN sessionSequences /\ sessionSequences[sessionId] # 0
    THEN sessionSequences[sessionId]
    ELSE 1

\* SequencesAfterSend without the increment
SequencesAfterSendKept(sessionId) ==
    MapSet(sessionSequences, sessionId, SequenceIdFor(sessionId))

\* what the service keeps after it handed out sequenceId
SequencesAfterSend(sessionId) ==
    MapSet(sessionSequences, sessionId, SequenceIdFor(sessionId) + 1)

\* SequencesAfterEnd that clears the whole map
SequencesAfterEndAll(sessionId) == [x \in {} |-> 0]

\* what endSession keeps after a successful DELETE
SequencesAfterEnd(sessionId) == MapDelete(sessionSequences, sessionId)

\* the reply a service variant takes from a response
AgentReply(messages) ==
    IF variant = "tts" THEN AgentReplyLast(messages) ELSE AgentReplyFirst(messages)

\* ------------------------------------------------------------------ initial state

NoHistory == [sid |-> Undefined, media |-> 0, forwarded |-> 0, finals |-> 0,
              interims |-> 0]

InitCommon ==
    /\ variant \in Variants
    /\ agentConfigured \in BOOLEAN
    /\ crashed = FALSE
    /\ now = 0
    /\ accessToken = Null
    /\ tokenExpiry = 0
    /\ sessionSequences = [x \in {} |-> 0]
    /\ backendLog = [s \in Conns |-> <<>>]
    /\ conn = [c \in Conns |-> "idle"]
    /\ twilio = [c \in Conns |-> "none"]
    /\ salesforceSession = [c \in Conns |-> Undefined]
    /\ streamSid = [c \in Conns |-> Undefined]
    /\ dg = [c \in Conns |-> "none"]
    /\ dgFinish = [c \in Conns |-> 0]
    /\ dgPending = [c \in Conns |-> 0]
    /\ transcriptBuffer = [c \in Conns |-> <<>>]
    /\ create = [c \in Conns |-> "none"]
    /\ turns = [c \in Conns |-> <<>>]
    /\ ends = [c \in Conns |-> <<>>]
    /\ outbound = [c \in Conns |-> <<>>]
    /\ history = [c \in Conns |-> NoHistory]

\* one call
Init == InitCommon /\ allowed = {"c1"}

\* ------------------------------------------------------------------ frames

Alive == ~crashed

\* the handlers of ws.on("message") and ws.on("close") are registered
Listening(c) == conn[c] = "open"

\* the socket of connection c is connected
SocketOpen(c) == conn[c] # "idle" /\ twilio[c] # "closed"

\* ------------------------------------------------------------------ connection accept
\* wss.on("connection"): the Deepgram stream is opened and its handlers are
\* registered; with an agent configured the handler then awaits createSession,
\* and registers ws.on("message") and ws.on("close") only after it settles.

Connect(c) ==
    /\ Alive
    /\ c \in allowed
    /\ conn[c] = "idle"
    /\ dg' = [dg EXCEPT ![c] = "open"]
    /\ IF agentConfigured
       THEN /\ conn' = [conn EXCEPT ![c] = "creating"]
            /\ create' = [create EXCEPT ![c] = IF TokenValid THEN "post" ELSE "token"]
       ELSE /\ conn' = [conn EXCEPT ![c] = "open"]
            /\ UNCHANGED create
    /\ UNCHANGED <<envVars, crashed, svcVars, twilio, salesforceSession, streamSid,
                   dgFinish, dgPending, transcriptBuffer, turns, ends, outbound,
                   history>>

\* getAccessToken inside createSession settles
CreateSessionToken(c, ok, tok) ==
    /\ Alive
    /\ create[c] = "token"
    /\ IF ok
       THEN /\ accessToken' = tok
            /\ tokenExpiry' = now + TokenLifetimeMs
            /\ create' = [create EXCEPT ![c] = "post"]
            /\ UNCHANGED conn
       ELSE /\ create' = [create EXCEPT ![c] = "failed"]
            /\ conn' = [conn EXCEPT ![c] = "open"]
            /\ UNCHANGED <<accessToken, tokenExpiry>>
    /\ UNCHANGED <<envVars, crashed, now, sessionSequences, backendLog, twilio,
                   salesforceSession, streamSid, dg, dgFinish, dgPending,
                   transcriptBuffer, turns, ends, outbound, history>>

\* the POST of createSession settles
CreateSessionPost(c, ok) ==
    /\ Alive
    /\ create[c] = "post"
    /\ conn' = [conn EXCEPT ![c] = "open"]
    /\ IF ok
       THEN /\ create' = [create EXCEPT ![c] = "done"]
            /\ salesforceSession' = [salesforceSession EXCEPT ![c] = SessionIdOf(c)]
            /\ sessionSequences' =
                 IF variant = "tts"
                 THEN MapSet(sessionSequences, SessionIdOf(c), 1)
                 ELSE sessionSequences
       ELSE /\ create' = [create EXCEPT ![c] = "failed"]
            /\ UNCHANGED <<salesforceSession, sessionSequences>>
    /\ UNCHANGED <<envVars, crashed, now, accessToken, tokenExpiry, backendLog, twilio,
                   streamSid, dg, dgFinish, dgPending, transcriptBuffer, turns, ends,
                   outbound, history>>

\* ------------------------------------------------------------------ endSession

\* the record of a call of salesforceService.endSession(sessionId)
NewEnd(sessionId) ==
    [sessionId |-> sessionId, pc |-> IF TokenValid THEN "delete" ELSE "token"]

\* the teardown both the stop case and the close handler run
AfterTeardown(c) ==
    /\ dg' = [dg EXCEPT ![c] = IF dg[c] = "none" THEN "none" ELSE "finished"]
    /\ dgFinish' = [dgFinish EXCEPT ![c] = IF dg[c] = "none" THEN @ ELSE @ + 1]
    /\ ends' = [ends EXCEPT ![c] =
                  IF salesforceSession[c] # Undefined
                  THEN Append(@, NewEnd(salesforceSession[c]))
                  ELSE @]

EndSessionToken(c, i, ok, tok) ==
    /\ Alive
    /\ i \in DOMAIN ends[c]
    /\ ends[c][i].pc = "token"
    /\ IF ok
       THEN /\ accessToken' = tok
            /\ tokenExpiry' = now + TokenLifetimeMs
            /\ ends' = [ends EXCEPT ![c][i].pc = "delete"]
       ELSE /\ ends' = [ends EXCEPT ![c][i].pc = "rejected"]
            /\ UNCHANGED <<accessToken, tokenExpiry>>
    /\ UNCHANGED <<envVars, crashed, now, sessionSequences, backendLog, conn, twilio,
                   salesforceSession, streamSid, dg, dgFinish, dgPending,
                   transcriptBuffer, create, turns, outbound, history>>

EndSessionDelete(c, i, ok) ==
    /\ Alive
    /\ i \in DOMAIN ends[c]
    /\ ends[c][i].pc = "delete"
    /\ IF ok
       THEN /\ ends' = [ends EXCEPT ![c][i].pc = "done"]
            /\ sessionSequences' =
                 IF variant = "tts"
                 THEN SequencesAfterEnd(ends[c][i].sessionId)
                 ELSE sessionSequences
       ELSE /\ ends' = [ends EXCEPT ![c][i].pc = "failed"]
            /\ UNCHANGED sessionSequences
    /\ UNCHANGED <<envVars, crashed, now, accessToken, tokenExpiry, backendLog, conn,
                   twilio, salesforceSession, streamSid, dg, dgFinish, dgPending,
                   transcriptBuffer, create, turns, outbound, history>>

\* ------------------------------------------------------------------ inbound events
\* Twilio delivers connected, start, media..., stop in this order and may close
\* the socket at any time. An event that arrives while no listener is registered
\* (the handler still awaits createSession) is emitted to nobody.

MsgConnected(c) ==
    /\ Alive
    /\ SocketOpen(c)
    /\ twilio[c] = "none"
    /\ twilio' = [twilio EXCEPT ![c] = "connected"]
    /\ UNCHANGED <<envVars, crashed, svcVars, conn, salesforceSession, streamSid, dg,
                   dgFinish, dgPending, transcriptBuffer, create, turns, ends, outbound,
                   history>>

\* case "start"
OnStart(c, sid) ==
    IF variant = "tts" THEN [streamSid EXCEPT ![c] = sid] ELSE streamSid

MsgStart(c, sid) ==
    /\ Alive
    /\ SocketOpen(c)
    /\ twilio[c] = "connected"
    /\ twilio' = [twilio EXCEPT ![c] = "started"]
    /\ history' = [history EXCEPT ![c].sid = sid]
    /\ streamSid' = IF Listening(c) THEN OnStart(c, sid) ELSE streamSid
    /\ UNCHANGED <<envVars, crashed, svcVars, conn, salesforceSession, dg, dgFinish,
                   dgPending, transcriptBuffer, create, turns, ends, outbound>>

\* case "media": deepgramLive.send(audioBuffer); Twilio sends at most limit
\* media events
MsgMedia(c, limit) ==
    /\ Alive
    /\ SocketOpen(c)
    /\ twilio[c] = "started"
    /\ history[c].media < limit
    /\ IF Listening(c) /\ dg[c] = "open"
       THEN /\ dgPending' = [dgPending EXCEPT ![c] = @ + 1]
            /\ history' = [history EXCEPT ![c].media = @ + 1, ![c].forwarded = @ + 1]
       ELSE /\ UNCHANGED dgPending
            /\ history' = [history EXCEPT ![c].media = @ + 1]
    /\ UNCHANGED <<envVars, crashed, svcVars, conn, twilio, salesforceSession, streamSid,
                   dg, dgFinish, transcriptBuffer, create, turns, ends, outbound>>

\* case "stop"
MsgStop(c) ==
    /\ Alive
    /\ SocketOpen(c)
    /\ twilio[c] = "started"
    /\ twilio' = [twilio EXCEPT ![c] = "stopped"]
    /\ IF Listening(c)
       THEN AfterTeardown(c)
       ELSE UNCHANGED <<dg, dgFinish, ends>>
    /\ UNCHANGED <<envVars, crashed, svcVars, conn, salesforceSession, streamSid,
                   dgPending, transcriptBuffer, create, turns, outbound, history>>

\* a payload JSON.parse rejects: the SyntaxError leaves the listener uncaught
MsgMalformed(c) ==
    /\ Alive
    /\ SocketOpen(c)
    /\ crashed' = Listening(c)
    /\ UNCHANGED <<envVars, svcVars, conn, twilio, salesforceSession, streamSid, dg,
                   dgFinish, dgPending, transcriptBuffer, create, turns, ends, outbound,
                   history>>

\* ws.on("close")
Close(c) ==
    /\ Alive
    /\ SocketOpen(c)
    /\ twilio' = [twilio EXCEPT ![c] = "closed"]
    /\ IF Listening(c)
       THEN AfterTeardown(c)
       ELSE UNCHANGED <<dg, dgFinish, ends>>
    /\ UNCHANGED <<envVars, crashed, svcVars, conn, salesforceSession, streamSid,
                   dgPending, transcriptBuffer, create, turns, outbound, history>>

\* time passes
Tick ==
    /\ Alive
    /\ now < MaxTicks * TokenLifetimeMs
    /\ now' = now + TokenLifetimeMs
    /\ UNCHANGED <<envVars, crashed, accessToken, tokenExpiry, sessionSequences,
                   backendLog, conn, twilio, salesforceSession, streamSid, dg, dgFinish,
                   dgPending, transcriptBuffer, create, turns, ends, outbound, history>>

\* ------------------------------------------------------------------ agent turn
\* handleAgentConversation. A turn is a record; pc is the await it is parked at:
\* "token" (getAccessToken inside sendMessage), "send" (the POST of sendMessage),
\* "tts" (deepgram.speak.request), "stream" (the for-await over the audio),
\* "done" (returned), "threw" (rejected). polls counts the waits for a session
\* handle: handleAgentConversation makes none.

\* CanSpeak without the test of ws.streamSid
CanSpeakAnyDestination(c, agentResponse) == Truthy(agentResponse)

\* the test that guards the text-to-speech block
CanSpeak(c, agentResponse) == Truthy(agentResponse) /\ streamSid[c] # Undefined

\* where a turn goes once it has its reply
PcAfterReply(c, agentResponse) ==
    IF variant = "tts" /\ CanSpeak(c, agentResponse) THEN "tts" ELSE "done"

BlankTurn(fragment, final, userMessage, sessionId) ==
    [fragment |-> fragment, final |-> final, userMessage |-> userMessage,
     sessionId |-> sessionId, pc |-> "done", sequenceId |-> 0, posts |-> 0,
     sendFailed |-> FALSE, polls |-> 0, messages |-> <<>>, replied |-> FALSE,
     agentResponse |-> <<>>, chunks |-> 0]

\* the turn with its reply set
Replied(c, t, agentResponse) ==
    [t EXCEPT !.replied = TRUE, !.agentResponse = agentResponse,
              !.pc = PcAfterReply(c, agentResponse)]

\* the turn once sendMessage has issued its POST
Posted(t) ==
    [t EXCEPT !.pc = "send", !.posts = @ + 1,
              !.sequenceId = IF variant = "tts" THEN SequenceIdFor(t.sessionId) ELSE 0]

\* the reply of a turn that finds no session id
NoSessionTurn(c, t) ==
    IF variant = "tts" THEN Replied(c, t, MockReply(t.userMessage)) ELSE t

\* RejectedTurn without the try/catch around sendMessage
RejectedTurnUncaught(c, t) == [t EXCEPT !.sendFailed = TRUE, !.pc = "threw"]

\* the reply of a turn whose sendMessage rejected (getAccessToken threw)
RejectedTurn(c, t) ==
    IF variant = "tts"
    THEN Replied(c, [t EXCEPT !.sendFailed = TRUE], HandlerApology)
    ELSE [t EXCEPT !.sendFailed = TRUE, !.pc = "done"]

\* the service state once sendMessage has taken its sequenceId
ServiceAfterPost(sessionId) ==
    /\ sessionSequences' =
         IF variant = "tts" THEN SequencesAfterSend(sessionId) ELSE sessionSequences
    /\ backendLog' =
         IF variant = "tts"
         THEN [backendLog EXCEPT ![sessionId] = Append(@, SequenceIdFor(sessionId))]
         ELSE backendLog

\* HandleAgentConversation that starts no turn while an earlier one is in flight
HandleAgentConversationExclusive(c, fragment, final, userMessage) ==
    LET t == BlankTurn(fragment, final, userMessage, salesforceSession[c]) IN
    IF \E i \in DOMAIN turns[c] : turns[c][i].pc # "done"
    THEN UNCHANGED <<turns, sessionSequences, backendLog>>
    ELSE IF t.sessionId = Undefined
    THEN /\ turns' = [turns EXCEPT ![c] = Append(@, NoSessionTurn(c, t))]
         /\ UNCHANGED <<sessionSequences, backendLog>>
    ELSE IF TokenValid
    THEN /\ turns' = [turns EXCEPT ![c] = Append(@, Posted(t))]
         /\ ServiceAfterPost(t.sessionId)
    ELSE /\ turns' = [turns EXCEPT ![c] = Append(@, [t EXCEPT !.pc = "token"])]
         /\ UNCHANGED <<sessionSequences, backendLog>>

\* handleAgentConversation(userMessage, sessionId, ws) up to its first await
HandleAgentConversation(c, fragment, final, userMessage) ==
    LET t == BlankTurn(fragment, final, userMessage, salesforceSession[c]) IN
    IF t.sessionId = Undefined
    THEN /\ turns' = [turns EXCEPT ![c] = Append(@, NoSessionTurn(c, t))]
         /\ UNCHANGED <<sessionSequences, backendLog>>
    ELSE IF TokenValid
    THEN /\ turns' = [turns EXCEPT ![c] = Append(@, Posted(t))]
         /\ ServiceAfterPost(t.sessionId)
    ELSE /\ turns' = [turns EXCEPT ![c] = Append(@, [t EXCEPT !.pc = "token"])]
         /\ UNCHANGED <<sessionSequences, backendLog>>

\* getAccessToken inside sendMessage settles
TurnToken(c, i, ok, tok) ==
    /\ Alive
    /\ i \in DOMAIN turns[c]
    /\ turns[c][i].pc = "token"
    /\ IF ok
       THEN /\ accessToken' = tok
            /\ tokenExpiry' = now + TokenLifetimeMs
            /\ turns' = [turns EXCEPT ![c][i] = Posted(@)]
            /\ ServiceAfterPost(turns[c][i].sessionId)
       ELSE /\ turns' = [turns EXCEPT ![c][i] = RejectedTurn(c, @)]
            /\ UNCHANGED <<accessToken, tokenExpiry, sessionSequences, backendLog>>
    /\ UNCHANGED <<envVars, crashed, now, conn, twilio, salesforceSession, streamSid, dg,
                   dgFinish, dgPending, transcriptBuffer, create, ends, outbound,
                   history>>

\* the POST of sendMessage settles: a messages array, or an error it catches
TurnSend(c, i, ok, messages) ==
    /\ Alive
    /\ i \in DOMAIN turns[c]
    /\ turns[c][i].pc = "send"
    /\ turns' = [turns EXCEPT ![c][i] =
                   IF ok
                   THEN Replied(c, [@ EXCEPT !.messages = messages], AgentReply(messages))
                   ELSE Replied(c, [@ EXCEPT !.sendFailed = TRUE], ServiceApology)]
    /\ UNCHANGED <<envVars, crashed, svcVars, conn, twilio, salesforceSession, streamSid,
                   dg, dgFinish, dgPending, transcriptBuffer, create, ends, outbound,
                   history>>

\* deepgram.speak.request and getStream settle
TurnTts(c, i, ok) ==
    /\ Alive
    /\ i \in DOMAIN turns[c]
    /\ turns[c][i].pc = "tts"
    /\ turns' = [turns EXCEPT ![c][i].pc = IF ok THEN "stream" ELSE "done"]
    /\ UNCHANGED <<envVars, crashed, svcVars, conn, twilio, salesforceSession, streamSid,
                   dg, dgFinish, dgPending, transcriptBuffer, create, ends, outbound,
                   history>>

\* MediaSent with the event put ahead of the ones already sent
MediaSentAhead(c, i) ==
    IF twilio[c] = "closed"
    THEN outbound[c]
    ELSE <<[turn |-> i, chunk |-> turns[c][i].chunks + 1,
            streamSid |-> streamSid[c]]>> \o outbound[c]

\* the media event ws.send puts on the wire; a closed socket takes nothing
MediaSent(c, i) ==
    IF twilio[c] = "closed"
    THEN outbound[c]
    ELSE Append(outbound[c], [turn |-> i, chunk |-> turns[c][i].chunks + 1,
                              streamSid |-> streamSid[c]])

\* one pass of the for-await loop; the audio stream yields at most limit chunks
TurnChunk(c, i, limit) ==
    /\ Alive
    /\ i \in DOMAIN turns[c]
    /\ turns[c][i].pc = "stream"
    /\ turns[c][i].chunks < limit
    /\ outbound' = [outbound EXCEPT ![c] = MediaSent(c, i)]
    /\ turns' = [turns EXCEPT ![c][i].chunks = @ + 1]
    /\ UNCHANGED <<envVars, crashed, svcVars, conn, twilio, salesforceSession, streamSid,
                   dg, dgFinish, dgPending, transcriptBuffer, create, ends, history>>

\* TurnStreamEnd with the reply requested anew
TurnStreamEndRetried(c, i) ==
    /\ Alive
    /\ i \in DOMAIN turns[c]
    /\ turns[c][i].pc = "stream"
    /\ turns' = [turns EXCEPT ![c][i].pc = "tts"]
    /\ UNCHANGED <<envVars, crashed, svcVars, conn, twilio, salesforceSession, streamSid,
                   dg, dgFinish, dgPending, transcriptBuffer, create, ends, outbound,
                   history>>

\* the audio stream ends, or fails and the catch logs it
TurnStreamEnd(c, i) ==
    /\ Alive
    /\ i \in DOMAIN turns[c]
    /\ turns[c][i].pc = "stream"
    /\ turns' = [turns EXCEPT ![c][i].pc = "done"]
    /\ UNCHANGED <<envVars, crashed, svcVars, conn, twilio, salesforceSession, streamSid,
                   dg, dgFinish, dgPending, transcriptBuffer, create, ends, outbound,
                   history>>

\* ------------------------------------------------------------------ transcripts
\* deepgramLive.on(Transcript): Deepgram reports on audio it was sent, also
\* after finish() while it flushes.

\* DirectTriggers without the is_final test
DirectTriggersAnyFinality(text, final) == Truthy(text)

\* tts variant: if (transcript && data.is_final)
DirectTriggers(text, final) == Truthy(text) /\ final

\* buffered variant: if (transcript && transcript.trim().length > 0)
BufferedAccepts(text) == Truthy(text) /\ Len(Trim(text)) > 0

Transcript(c, text, final) ==
    /\ Alive
    /\ dg[c] # "none"
    /\ dgPending[c] > 0
    /\ dgPending' = [dgPending EXCEPT ![c] = @ - 1]
    /\ history' = [history EXCEPT
                     ![c].finals = IF final /\ Trim(text) # <<>> THEN @ + 1 ELSE @,
                     ![c].interims = IF ~final /\ Trim(text) # <<>> THEN @ + 1 ELSE @]
    /\ IF variant = "tts"
       THEN /\ UNCHANGED transcriptBuffer
            /\ IF DirectTriggers(text, final)
               THEN HandleAgentConversation(c, text, final, text)
               ELSE UNCHANGED <<turns, sessionSequences, backendLog>>
       ELSE IF BufferedAccepts(text)
       THEN LET buffer == transcriptBuffer[c] \o text \o <<" ">>
                userMessage == Trim(buffer) IN
            IF final
            THEN /\ transcriptBuffer' = [transcriptBuffer EXCEPT ![c] = <<>>]
                 /\ IF Truthy(userMessage)
                    THEN HandleAgentConversation(c, text, final, userMessage)
                    ELSE UNCHANGED <<turns, sessionSequences, backendLog>>
            ELSE /\ transcriptBuffer' = [transcriptBuffer EXCEPT ![c] = buffer]
                 /\ UNCHANGED <<turns, sessionSequences, backendLog>>
       ELSE UNCHANGED <<transcriptBuffer, turns, sessionSequences, backendLog>>
    /\ UNCHANGED <<envVars, crashed, now, accessToken, tokenExpiry, conn, twilio,
                   salesforceSession, streamSid, dg, dgFinish, create, ends, outbound>>

\* ------------------------------------------------------------------ specification

Next ==
    \/ \E c \in Conns : Connect(c)
    \/ \E c \in Conns, ok \in BOOLEAN, tok \in Tokens : CreateSessionToken(c, ok, tok)
    \/ \E c \in Conns, ok \in BOOLEAN : CreateSessionPost(c, ok)
    \/ \E c \in Conns : MsgConnected(c)
    \/ \E c \in Conns, sid \in Sids : MsgStart(c, sid)
    \/ \E c \in Conns : MsgMedia(c, MaxMedia)
    \/ \E c \in Conns : MsgStop(c)
    \/ \E c \in Conns : MsgMalformed(c)
    \/ \E c \in Conns : Close(c)
    \/ \E c \in Conns, text \in Texts, final \in BOOLEAN : Transcript(c, text, final)
    \/ \E c \in Conns, i \in 1..MaxMedia, ok \in BOOLEAN, tok \in Tokens :
          TurnToken(c, i, ok, tok)
    \/ \E c \in Conns, i \in 1..MaxMedia, ok \in BOOLEAN, m \in MessageLists :
          TurnSend(c, i, ok, m)
    \/ \E c \in Conns, i \in 1..MaxMedia, ok \in BOOLEAN : TurnTts(c, i, ok)
    \/ \E c \in Conns, i \in 1..MaxMedia : TurnChunk(c, i, MaxChunks)
    \/ \E c \in Conns, i \in 1..MaxMedia : TurnStreamEnd(c, i)
    \/ \E c \in Conns, i \in 1..2, ok \in BOOLEAN, tok \in Tokens :
          EndSessionToken(c, i, ok, tok)
    \/ \E c \in Conns, i \in 1..2, ok \in BOOLEAN : EndSessionDelete(c, i, ok)
    \/ Tick

Spec == Init /\ [][Next]_vars

\* one call of the text-to-speech server with no agent configured: every turn
\* gets the mock reply and speaks it, in up to MaxRelayChunks chunks
InitRelay == InitCommon /\ allowed = {"c1"} /\ variant = "tts" /\ ~agentConfigured

NextRelay ==
    \/ \E c \in Conns : Connect(c)
    \/ \E c \in Conns : MsgConnected(c)
    \/ \E c \in Conns, sid \in Sids : MsgStart(c, sid)
    \/ \E c \in Conns : MsgMedia(c, MaxMedia)
    \/ \E c \in Conns : MsgStop(c)
    \/ \E c \in Conns : MsgMalformed(c)
    \/ \E c \in Conns : Close(c)
    \/ \E c \in Conns, text \in Texts, final \in BOOLEAN : Transcript(c, text, final)
    \/ \E c \in Conns, i \in 1..MaxMedia, ok \in BOOLEAN : TurnTts(c, i, ok)
    \/ \E c \in Conns, i \in 1..MaxMedia : TurnChunk(c, i, MaxRelayChunks)
    \/ \E c \in Conns, i \in 1..MaxMedia : TurnStreamEnd(c, i)

SpecRelay == InitRelay /\ [][NextRelay]_vars

\* two concurrent calls of the text-to-speech server with no agent configured,
\* each of up to MaxPairMedia media events
InitPair == InitCommon /\ allowed = Conns /\ variant = "tts" /\ ~agentConfigured

NextPair ==
    \/ \E c \in Conns : Connect(c)
    \/ \E c \in Conns : MsgConnected(c)
    \/ \E c \in Conns, sid \in Sids : MsgStart(c, sid)
    \/ \E c \in Conns : MsgMedia(c, MaxPairMedia)
    \/ \E c \in Conns : MsgStop(c)
    \/ \E c \in Conns : MsgMalformed(c)
    \/ \E c \in Conns : Close(c)
    \/ \E c \in Conns, text \in Texts, final \in BOOLEAN : Transcript(c, text, final)
    \/ \E c \in Conns, i \in 1..MaxPairMedia, ok \in BOOLEAN : TurnTts(c, i, ok)
    \/ \E c \in Conns, i \in 1..MaxPairMedia : TurnChunk(c, i, MaxChunks)
    \/ \E c \in Conns, i \in 1..MaxPairMedia : TurnStreamEnd(c, i)

SpecPair == InitPair /\ [][NextPair]_vars

\* two concurrent calls of the text-to-speech server with an agent configured
\* and a token that stays unexpired once obtained, each of up to MaxPairMedia
\* media events; the synthesis requests of the replies stay pending
InitAgents == InitCommon /\ allowed = Conns /\ variant = "tts" /\ agentConfigured

NextAgents ==
    \/ \E c \in Conns : Connect(c)
    \/ \E c \in Conns, ok \in BOOLEAN, tok \in Tokens : CreateSessionToken(c, ok, tok)
    \/ \E c \in Conns, ok \in BOOLEAN : CreateSessionPost(c, ok)
    \/ \E c \in Conns : MsgConnected(c)
    \/ \E c \in Conns, sid \in Sids : MsgStart(c, sid)
    \/ \E c \in Conns : MsgMedia(c, MaxPairMedia)
    \/ \E c \in Conns : MsgStop(c)
    \/ \E c \in Conns : MsgMalformed(c)
    \/ \E c \in Conns : Close(c)
    \/ \E c \in Conns, text \in Texts, final \in BOOLEAN : Transcript(c, text, final)
    \/ \E c \in Conns, i \in 1..MaxPairMedia, ok \in BOOLEAN, m \in MessageLists :
          TurnSend(c, i, ok, m)
    \/ \E c \in Conns, i \in 1..2, ok \in BOOLEAN : EndSessionDelete(c, i, ok)

SpecAgents == InitAgents /\ [][NextAgents]_vars

\* ------------------------------------------------------------------ properties

TurnsOf(c) == {turns[c][i] : i \in DOMAIN turns[c]}

\* s occurs in t as a contiguous run
Contains(t, s) ==
    \E i \in 1..(Len(t) - Len(s) + 1) : SubSeq(t, i, i + Len(s) - 1) = s

StrictlyIncreasing(seq) == \A i, j \in DOMAIN seq : i < j => seq[i] < seq[j]

\* C1: for each agent session, the sequenceIds posted to the agent API are
\* strictly increasing, so none is used twice, whatever createSession,
\* sendMessage and endSession calls were made for it.
SequenceIdsNeverReused == \A s \in Conns : StrictlyIncreasing(backendLog[s])

\* C2: every final fragment with non-blank text starts exactly one turn, and a
\* later turn of a session carries a strictly greater sequenceId than an
\* earlier one.
OneTurnPerFinalWithGrowingSequenceIds ==
    \A c \in Conns :
        /\ Cardinality({i \in DOMAIN turns[c] : Trim(turns[c][i].fragment) # <<>>})
             = history[c].finals
        /\ \A i, j \in DOMAIN turns[c] :
              (/\ i < j
               /\ turns[c][i].sessionId = turns[c][j].sessionId
               /\ turns[c][i].sequenceId # 0
               /\ turns[c][j].sequenceId # 0)
              => turns[c][i].sequenceId < turns[c][j].sequenceId

\* C3: a final fragment whose text is empty after trimming starts no turn (so
\* no send, no fallback reply and no media event comes of it).
BlankFinalStartsNoTurn ==
    \A c \in Conns : \A t \in TurnsOf(c) : Trim(t.fragment) # <<>>

\* C4: a fragment whose finality flag is false never starts a turn.
InterimNeverStartsTurn ==
    \A c \in Conns : \A t \in TurnsOf(c) : t.final

\* C4 witness: the tts handler was given an interim fragment with text and a
\* final one, and only the final one started a turn.
InterimHandledWithoutTurn ==
    \E c \in Conns :
        /\ variant = "tts"
        /\ history[c].interims > 0
        /\ history[c].finals > 0
        /\ dgPending[c] = 0
        /\ Len(turns[c]) = history[c].finals

\* C5: with an agent configured, a turn that finds no session handle waits 5
\* attempts, 1 second apart, before it falls back to the mock reply.
FallbackOnlyAfterFiveAttempts ==
    \A c \in Conns : \A t \in TurnsOf(c) :
        (agentConfigured /\ variant = "tts" /\ t.sessionId = Undefined /\ t.replied)
        => t.polls = 5

\* C6: a turn that has no session handle produces the fallback reply, which
\* contains the utterance, posts nothing to the agent API and does not throw.
NoSessionYieldsFallback ==
    \A c \in Conns : \A t \in TurnsOf(c) :
        t.sessionId = Undefined
        => /\ t.replied
           /\ t.agentResponse = MockReply(t.userMessage)
           /\ Contains(t.agentResponse, t.userMessage)
           /\ t.posts = 0
           /\ t.pc # "threw"

\* C7: in the tts handler a turn whose send failed (token acquisition, transport
\* or backend error) posted the utterance at most once, has one of the two
\* apology replies, and did not reject.
FailedSendYieldsApology ==
    variant = "tts" =>
        \A c \in Conns : \A t \in TurnsOf(c) :
            /\ t.posts <= 1
            /\ t.sendFailed
               => /\ t.pc # "threw"
                  /\ t.replied
                  /\ t.agentResponse \in {ServiceApology, HandlerApology}

\* C7 witness: both kinds of failure happened on one call: a turn whose POST
\* failed and a turn whose token request failed.
BothSendFailuresSeen ==
    \E c \in Conns : \E t, u \in TurnsOf(c) :
        /\ variant = "tts"
        /\ t.sendFailed /\ t.posts = 1 /\ t.agentResponse = ServiceApology
        /\ u.sendFailed /\ u.posts = 0 /\ u.agentResponse = HandlerApology

\* all parts, in order, with one space between
RECURSIVE JoinParts(_)
JoinParts(parts) ==
    IF parts = <<>> THEN <<>>
    ELSE IF Len(parts) = 1 THEN parts[1]
    ELSE parts[1] \o <<" ">> \o JoinParts(Tail(parts))

\* C8: the reply spoken for a response of several parts is all parts joined in
\* order with single spaces; a single part is spoken unchanged.
ReplyJoinsAllParts ==
    \A c \in Conns : \A t \in TurnsOf(c) :
        t.messages # <<>> => t.agentResponse = JoinParts(t.messages)

\* C9: a message that fails to parse is ignored: the process goes on serving
\* the session, whose stream identifier, session handle and recognition stream
\* are as before.
MalformedMessageIgnored == ~crashed

\* C10: once Twilio has delivered the start event of a call, the session holds
\* that event's stream identifier (it is STREAMING), whenever the event came.
StartEventRecorded ==
    variant = "tts" =>
        \A c \in Conns : history[c].sid # Undefined => streamSid[c] = history[c].sid

\* the media events turn i of connection c put on the wire
EventsOf(c, i) == {k \in DOMAIN outbound[c] : outbound[c][k].turn = i}

\* C11: a reply that is empty, or that comes while the connection has no
\* stream identifier, is dropped: its turn returns without a synthesis request
\* and without a media event; every media event sent carries an identifier.
SpeakNeedsTextAndDestination ==
    \A c \in Conns :
        /\ \A k \in DOMAIN outbound[c] : outbound[c][k].streamSid # Undefined
        /\ \A i \in DOMAIN turns[c] :
              (/\ turns[c][i].replied
               /\ (turns[c][i].agentResponse = <<>> \/ streamSid[c] = Undefined))
              => /\ turns[c][i].pc = "done"
                 /\ turns[c][i].chunks = 0
                 /\ EventsOf(c, i) = {}

\* C11 witness: on one call a reply was dropped for want of an identifier
\* (the start event was lost) and another because its text was empty.
RepliesDropped ==
    \E c \in Conns : \E i, j \in DOMAIN turns[c] :
        /\ streamSid[c] = Undefined
        /\ turns[c][i].replied /\ turns[c][i].agentResponse # <<>>
        /\ turns[c][j].replied /\ turns[c][j].agentResponse = <<>>
        /\ outbound[c] = <<>>
        /\ ~crashed

\* the media events of turn i of connection c, in the order they were sent
EventSeqOf(c, i) ==
    LET OfTurn(e) == e.turn = i IN SelectSeq(outbound[c], OfTurn)

\* C12: the media events of a reply are on the wire in the order its chunks
\* were produced: the k-th event of a turn carries its k-th chunk, each is
\* tagged with the connection's streamSid, and while the socket is connected
\* every chunk produced so far has its event.
ChunksRelayedInOrder ==
    \A c \in Conns : \A i \in DOMAIN turns[c] :
        /\ \A k \in DOMAIN EventSeqOf(c, i) :
              /\ EventSeqOf(c, i)[k].chunk = k
              /\ EventSeqOf(c, i)[k].streamSid = streamSid[c]
              /\ EventSeqOf(c, i)[k].streamSid = history[c].sid
        /\ twilio[c] # "closed" => Len(EventSeqOf(c, i)) = turns[c][i].chunks

\* C12 witness: two replies were each spoken in two chunks and their streams
\* ended, on a connected socket.
TwoRepliesRelayed ==
    \E c \in Conns :
        /\ twilio[c] # "closed"
        /\ Len(turns[c]) = 2
        /\ \A i \in DOMAIN turns[c] :
              /\ turns[c][i].pc = "done"
              /\ turns[c][i].chunks = MaxRelayChunks
              /\ Len(EventSeqOf(c, i)) = MaxRelayChunks
        /\ outbound[c][1].turn = 1 /\ outbound[c][2].turn = 2

\* C13: once the stop event or the close of a call has happened, its
\* recognition stream is finished, and an endSession call was made exactly
\* when the call has an agent session.
TeardownOnStopOrClose ==
    \A c \in Conns :
        twilio[c] \in {"stopped", "closed"}
        => /\ dg[c] = "finished"
           /\ salesforceSession[c] # Undefined <=> ends[c] # <<>>

\* C14: however stop and close follow each other, a call finishes its
\* recognition stream at most once and asks at most once for its agent
\* session to end.
TeardownRunsOnce ==
    \A c \in Conns : dgFinish[c] <= 1 /\ Len(ends[c]) <= 1

\* C15: once the teardown of a call has run, no step puts a further media
\* event of that call on the wire.
NoMediaAfterTeardown ==
    [][\A c \in Conns : dgFinish[c] > 0 => outbound'[c] = outbound[c]]_vars

\* C16: every media event Twilio delivered was forwarded to the recognition
\* stream at once.
EveryMediaForwarded ==
    \A c \in Conns : history[c].forwarded = history[c].media

\* C17: a turn never rejects, and a turn that has returned has produced a
\* reply text.
TurnsEndWithReply ==
    \A c \in Conns : \A t \in TurnsOf(c) :
        /\ t.pc # "threw"
        /\ t.pc = "done" => t.replied

\* the calls whose socket is connected
LiveCalls == {c \in Conns : SocketOpen(c)}

\* C18: the process never goes down while two calls are connected: whatever
\* goes wrong in one call leaves the other call running.
OtherCallsUnaffected == crashed => Cardinality(LiveCalls) <= 1

\* the turns of connection c a step has started or moved
TurnsMoved(c) ==
    {i \in DOMAIN turns'[c] : i \notin DOMAIN turns[c] \/ turns'[c][i] # turns[c][i]}

\* the sequenceId the map m of the service gives the next send of a session
CounterIn(m, sessionId) ==
    IF sessionId \in DOMAIN m /\ m[sessionId] # 0 THEN m[sessionId] ELSE 1

\* the numbers turn i of connection c had posted before the step
PostsBefore(c, i) == IF i \in DOMAIN turns[c] THEN turns[c][i].posts ELSE 0

\* C19 as stated: every sendMessage call that has settled took one sequence
\* number, also one that failed at token acquisition.
EverySendConsumesANumber ==
    variant = "tts" =>
        \A c \in Conns : \A t \in TurnsOf(c) :
            (t.sessionId # Undefined /\ t.replied)
            => t.posts = 1 /\ t.sequenceId >= 1

\* C19 amended: a sendMessage call takes the session's counter value and
\* advances the counter by exactly one at the moment it has its access token,
\* whether the POST then succeeds or fails, and at no other step; a call whose
\* token acquisition fails never advances it.
SendAdvancesCounterOncePastToken ==
    [][variant = "tts" =>
         \A c \in Conns : \A i \in TurnsMoved(c) :
            LET t == turns'[c][i] IN
            /\ t.sessionId # Undefined
               => IF t.posts = PostsBefore(c, i) + 1
                  THEN /\ t.pc = "send"
                       /\ t.sequenceId = CounterIn(sessionSequences, t.sessionId)
                       /\ CounterIn(sessionSequences', t.sessionId)
                            = CounterIn(sessionSequences, t.sessionId) + 1
                  ELSE /\ t.posts = PostsBefore(c, i)
                       /\ CounterIn(sessionSequences', t.sessionId)
                            = CounterIn(sessionSequences, t.sessionId)
            /\ t.posts <= 1
            /\ (t.sendFailed /\ t.agentResponse = HandlerApology) => t.posts = 0
            /\ (t.replied /\ t.agentResponse # HandlerApology /\ t.sessionId # Undefined)
               => t.posts = 1]_vars

\* C19 witness: one session, two sendMessage calls: the first failed at token
\* acquisition and took no number, the second took number 1 and its POST
\* failed; the counter stands at 2.
CounterAfterBothFailures ==
    \E c \in Conns :
        /\ variant = "tts"
        /\ Len(turns[c]) = 2
        /\ turns[c][1].sendFailed /\ turns[c][1].posts = 0
        /\ turns[c][1].agentResponse = HandlerApology
        /\ turns[c][2].sendFailed /\ turns[c][2].posts = 1
        /\ turns[c][2].sequenceId = 1
        /\ SessionIdOf(c) \in DOMAIN sessionSequences
        /\ sessionSequences[SessionIdOf(c)] = 2

\* C20: while a session has not been ended, of two utterances of one call that
\* were both sent to the agent, the one whose final transcript came first was
\* sent with the smaller sequenceId.
SendOrderFollowsTranscriptOrder ==
    variant = "tts" =>
        \A c \in Conns : \A i, j \in DOMAIN turns[c] :
            (/\ i < j
             /\ turns[c][i].posts = 1 /\ turns[c][j].posts = 1
             /\ \A k \in DOMAIN ends[c] : ends[c][k].pc # "done")
            => turns[c][i].sequenceId < turns[c][j].sequenceId

\* C21: no endSession call made at teardown ends in a rejected promise.
EndSessionFailuresContained ==
    \A c \in Conns : \A i \in DOMAIN ends[c] : ends[c][i].pc # "rejected"

\* C22: when the synthesis request or the audio stream of a reply fails, the
\* turn returns: the step leaves the process, the connection and the other
\* turns as they are, and a turn that has returned sends no further media
\* event and is never requested again.
FailedReplyStopsAndSessionLives ==
    [][\A c \in Conns : \A i \in DOMAIN turns[c] :
          /\ (turns[c][i].pc \in {"tts", "stream"} /\ turns'[c][i].pc \notin {"tts", "stream"})
             => /\ turns'[c][i].pc = "done"
                /\ turns'[c][i].chunks = turns[c][i].chunks
                /\ Len(turns'[c]) = Len(turns[c])
                /\ ~crashed'
                /\ conn'[c] = conn[c] /\ dg'[c] = dg[c] /\ outbound'[c] = outbound[c]
          /\ turns[c][i].pc = "stream" => turns'[c][i].pc \in {"stream", "done"}
          /\ turns[c][i].pc = "done"
             => /\ turns'[c][i] = turns[c][i]
                /\ EventSeqOf(c, i)' = EventSeqOf(c, i)]_vars

\* C22 witness: the first reply of a call broke off after one chunk, and the
\* call went on: a later turn spoke its reply in full after it.
CallGoesOnAfterBrokenReply ==
    \E c \in Conns :
        /\ Len(turns[c]) = 2
        /\ turns[c][1].pc = "done" /\ turns[c][1].chunks = 1
        /\ turns[c][2].pc = "done" /\ turns[c][2].chunks = MaxRelayChunks
        /\ Len(outbound[c]) = 1 + MaxRelayChunks
        /\ outbound[c][1].turn = 1
        /\ ~crashed /\ Listening(c)

\* C23: once the socket of a call is closed and its createSession has
\* succeeded, in whichever order, the session has been asked to end and the
\* recognition stream has been finished. (The close handler acts at once and
\* nothing acts later, so a state that lacks either stays without it.)
ClosedCallReleased ==
    \A c \in Conns :
        twilio[c] = "closed"
        => /\ dg[c] = "finished"
           /\ create[c] = "done" => \E k \in DOMAIN ends[c] : ends[c][k].sessionId = SessionIdOf(c)

\* C24: a final fragment with text starts its turn in the step that handles
\* it, whatever the earlier turns of the call are waiting for.
FinalStartsTurnAtOnce ==
    [][\A c \in Conns :
          history'[c].finals = history[c].finals + 1
          => /\ Len(turns'[c]) = Len(turns[c]) + 1
             /\ \A i \in DOMAIN turns[c] : turns'[c][i] = turns[c][i]]_vars

\* C24 witness: two turns are in the chunk loop at once and their media events
\* alternate on one streamSid.
RepliesInterleaved ==
    \E c \in Conns :
        /\ Len(turns[c]) = 2
        /\ turns[c][1].pc = "stream" /\ turns[c][2].pc = "stream"
        /\ Len(outbound[c]) = 3
        /\ outbound[c][1].turn = 1 /\ outbound[c][2].turn = 2 /\ outbound[c][3].turn = 1
        /\ outbound[c][1].streamSid = outbound[c][2].streamSid

\* C25: in the buffering handler the transcript buffer is empty right after a
\* final fragment was handled.
BufferEmptyAfterFinal ==
    [][\A c \in Conns, text \in Texts :
          (variant = "buffered" /\ Transcript(c, text, TRUE))
          => transcriptBuffer'[c] = <<>>]_vars

\* the entry the map m holds for a session, 0 for none
EntryIn(m, sessionId) == IF sessionId \in DOMAIN m THEN m[sessionId] ELSE 0

\* connection c made or continued a service call in the step
ServiceCallOf(c) ==
    turns'[c] # turns[c] \/ ends'[c] # ends[c] \/ create'[c] # create[c]

\* C26: a step of a createSession, sendMessage or endSession call of one
\* call's agent session leaves the sequence counter of every other session as
\* it is: neither its presence in the map nor its value changes.
CountersIsolated ==
    [][\A c \in Conns :
          ServiceCallOf(c)
          => \A d \in Conns \ {c} :
                EntryIn(sessionSequences', SessionIdOf(d))
                  = EntryIn(sessionSequences, SessionIdOf(d))]_vars

\* C26 witness: two sessions have each sent a message; one of them has been
\* ended and its entry is gone while the other's counter still stands at 2.
OneSessionEndedOtherCounting ==
    \E c, d \in Conns :
        /\ c # d
        /\ backendLog[SessionIdOf(c)] = <<1>> /\ backendLog[SessionIdOf(d)] = <<1>>
        /\ \E k \in DOMAIN ends[c] : ends[c][k].pc = "done"
        /\ EntryIn(sessionSequences, SessionIdOf(c)) = 0
        /\ EntryIn(sessionSequences, SessionIdOf(d)) = 2

\* C27: once an endSession call of a session has succeeded, the sequence map
\* holds no entry for that session.
EndedSessionHasNoEntry ==
    \A c \in Conns :
        (\E k \in DOMAIN ends[c] : ends[c][k].pc = "done")
        => SessionIdOf(c) \notin DOMAIN sessionSequences

\* a token is cached and its expiry lies ahead
CachedTokenUnexpired == accessToken # Null /\ now < tokenExpiry

TokenCacheKept == accessToken' = accessToken /\ tokenExpiry' = tokenExpiry

\* C28: a service call that starts (createSession, sendMessage, endSession)
\* issues a token request exactly when no unexpired token is cached, and
\* starting it does not touch the cache; a token request that fails leaves the
\* cached token and its expiry as they were and makes the call fail: the
\* session creation fails, the endSession promise rejects, the turn's send
\* rejects.
TokenCacheRespected ==
    [][\A c \in Conns :
          /\ (create[c] = "none" /\ create'[c] # "none")
             => /\ create'[c] = "token" <=> ~CachedTokenUnexpired
                /\ TokenCacheKept
          /\ (Len(turns'[c]) = Len(turns[c]) + 1
              /\ turns'[c][Len(turns'[c])].sessionId # Undefined)
             => /\ turns'[c][Len(turns'[c])].pc = "token" <=> ~CachedTokenUnexpired
                /\ turns'[c][Len(turns'[c])].pc = "send" <=> CachedTokenUnexpired
                /\ TokenCacheKept
          /\ Len(ends'[c]) = Len(ends[c]) + 1
             => /\ ends'[c][Len(ends'[c])].pc = "token" <=> ~CachedTokenUnexpired
                /\ ends'[c][Len(ends'[c])].pc = "delete" <=> CachedTokenUnexpired
                /\ TokenCacheKept
          /\ (create[c] = "token" /\ create'[c] # "token")
             => \/ create'[c] = "post" /\ accessToken' # Null /\ now < tokenExpiry'
                \/ create'[c] = "failed" /\ TokenCacheKept
          /\ \A i \in DOMAIN ends[c] :
                (ends[c][i].pc = "token" /\ ends'[c][i].pc # "token")
                => \/ ends'[c][i].pc = "delete" /\ accessToken' # Null /\ now < tokenExpiry'
                   \/ ends'[c][i].pc = "rejected" /\ TokenCacheKept
          /\ \A i \in DOMAIN turns[c] :
                (turns[c][i].pc = "token" /\ turns'[c][i].pc # "token")
                => \/ turns'[c][i].pc = "send" /\ accessToken' # Null /\ now < tokenExpiry'
                   \/ /\ turns'[c][i].sendFailed /\ turns'[c][i].posts = 0
                      /\ TokenCacheKept]_vars

\* C28 witness: a sendMessage call was served from the cache and posted at
\* once; after the token expired an endSession call's token request failed,
\* the call rejected, and the expired token is still cached with its expiry.
CacheServedThenRequestFailed ==
    \E c \in Conns :
        /\ Len(turns[c]) = 1 /\ turns[c][1].posts = 1 /\ ~turns[c][1].sendFailed
        /\ Len(ends[c]) = 1 /\ ends[c][1].pc = "rejected"
        /\ accessToken # Null
        /\ tokenExpiry = TokenLifetimeMs /\ now = TokenLifetimeMs

====
